---------------------------- MODULE Spec2Model ----------------------------
(***************************************************************************)
(* A model of tealdeer's command-line driver (src/main.rs): the language   *)
(* preference list built from $LANG / $LANGUAGE, and the control flow of   *)
(* one invocation of `main` (clear, update, render, list, page lookup and  *)
(* page printing).                                                         *)
(*                                                                         *)
(* Strings are sequences of characters; a character is a one-letter TLA+   *)
(* string.  Rust's str::len and the slices &s[..n] count UTF-8 bytes while *)
(* chars().nth(k) counts characters, so every character carries its UTF-8  *)
(* width.                                                                  *)
(***************************************************************************)
EXTENDS Integers, Sequences, FiniteSets, TLC

VARIABLES
    env_lang,       \* $LANG as read by the run: an Option of a string
    env_language,   \* $LANGUAGE as read by the run: an Option of a string
    languages,      \* outcome of building the language list
    lang_pc,        \* get_languages: "ready" | "returned" | "panicked"
    args,           \* the parsed command line (struct Args)
    config,         \* what Config::load yields from the configuration file
    cache,          \* the cache directory on disk: populated or not, and its age
    cache_updated,  \* main's local `cache_updated`
    pc,             \* where main is
    status,         \* the exit status of the process, -1 while it runs
    trace,          \* the calls main has made to its collaborators, in order
    stdout,         \* what was printed to standard output, in order
    stderr,         \* what was printed to standard error, in order
    page,           \* the number of paths of the PageLookupResult being printed
    path_idx        \* print_page: the path being processed (1-based)

langvars == <<env_lang, env_language, languages, lang_pc>>
mainvars == <<args, config, cache, cache_updated, pc, status, trace, stdout,
              stderr, page, path_idx>>
vars == <<langvars, mainvars>>

-----------------------------------------------------------------------------
(* Bounds of the model *)

\* longest generated locale string (characters)
MaxLocaleLen == 5
\* most colon-separated entries of a generated $LANGUAGE value
MaxEntries == 2
\* oldest cache and longest auto-update interval, in units of time
MaxAge == 2
\* most paths of a PageLookupResult
MaxPaths == 2

-----------------------------------------------------------------------------
(* Option<&str> *)

None == [some |-> FALSE, val |-> <<>>]
Some(s) == [some |-> TRUE, val |-> s]

(* String constants of get_languages *)
en == <<"e", "n">>
POSIX == <<"P", "O", "S", "I", "X">>

\* The characters of the model that take two bytes in UTF-8 (U+00E9).
TwoByteChars == {"é"}

\* char::len_utf8
len_utf8(c) == IF c \in TwoByteChars THEN 2 ELSE 1

\* str::len: the length of a string in bytes
RECURSIVE len(_)
len(s) == IF s = <<>> THEN 0 ELSE len_utf8(Head(s)) + len(Tail(s))

\* str::is_char_boundary(n): byte offset n falls between two characters
is_char_boundary(s, n) == \E k \in 0..Len(s) : len(SubSeq(s, 1, k)) = n

\* &s[..n] for a byte offset n that is a character boundary
slice_to(s, n) ==
    LET k == CHOOSE k \in 0..Len(s) : len(SubSeq(s, 1, k)) = n
    IN  SubSeq(s, 1, k)

\* s.chars().nth(k): Some(character) or None, here a sequence of length <= 1
chars_nth(s, k) == IF k + 1 <= Len(s) THEN <<s[k + 1]>> ELSE <<>>

\* str::split(sep): the pieces between separators; "" splits into [""]
RECURSIVE split(_, _)
split(s, sep) ==
    IF \A i \in 1..Len(s) : s[i] # sep
    THEN <<s>>
    ELSE LET i == CHOOSE i \in 1..Len(s) :
                      s[i] = sep /\ \A j \in 1..(i - 1) : s[j] # sep
         IN  <<SubSeq(s, 1, i - 1)>> \o split(SubSeq(s, i + 1, Len(s)), sep)

\* Option::unwrap_or
unwrap_or(opt, default) == IF opt.some THEN opt.val ELSE default

-----------------------------------------------------------------------------
(* Dedup::clear_duplicates (mod dedup): keeps the first occurrence of each *)
(* element, in order.                                                      *)

contains(list, x) == \E i \in 1..Len(list) : list[i] = x

RECURSIVE clear_duplicates_into(_, _)
clear_duplicates_into(acc, orig) ==
    IF orig = <<>> THEN acc
    ELSE clear_duplicates_into(
             IF contains(acc, Head(orig)) THEN acc ELSE Append(acc, Head(orig)),
             Tail(orig))

clear_duplicates(list) == clear_duplicates_into(<<>>, list)

-----------------------------------------------------------------------------
(* get_languages *)

\* line 364: the locale has the shape of a language plus country code
has_country_code(locale) == len(locale) >= 5 /\ chars_nth(locale, 2) = <<"_">>

\* line 368 without the comparison against "POSIX"
has_language_code_any(locale) == len(locale) >= 2

\* line 368: the locale carries a language code
has_language_code(locale) == len(locale) >= 2 /\ locale # POSIX

\* lines 365 and 369: a slice that does not end on a character boundary panics
slice_panics(locale) ==
    \/ has_country_code(locale) /\ ~is_char_boundary(locale, 5)
    \/ has_language_code(locale) /\ ~is_char_boundary(locale, 2)

\* One iteration of the loop of lines 362-371: what a locale pushes.
locale_codes(locale) ==
    (IF has_country_code(locale) THEN <<slice_to(locale, 5)>> ELSE <<>>)
    \o (IF has_language_code(locale) THEN <<slice_to(locale, 2)>> ELSE <<>>)

\* lines 356-359: $LANGUAGE (':' separated list) followed by $LANG
locales_of(lang, env_language_opt) ==
    split(unwrap_or(env_language_opt, <<>>), ":") \o <<lang>>

\* lines 361-371: the loop over the locales
RECURSIVE push_all(_)
push_all(locales) ==
    IF locales = <<>> THEN <<>>
    ELSE locale_codes(Head(locales)) \o push_all(Tail(locales))

Returned(list) == [panic |-> FALSE, list |-> list]
Panicked == [panic |-> TRUE, list |-> <<>>]

\* get_languages without line 373 (the default language is never pushed)
get_languages_without_default(env_lang_opt, env_language_opt) ==
    IF ~env_lang_opt.some THEN Returned(<<en>>)
    ELSE LET locales == locales_of(env_lang_opt.val, env_language_opt)
         IN  IF \E i \in 1..Len(locales) : slice_panics(locales[i])
             THEN Panicked
             ELSE Returned(clear_duplicates(push_all(locales)))

get_languages(env_lang_opt, env_language_opt) ==
    IF ~env_lang_opt.some THEN Returned(<<en>>)
    ELSE LET locales == locales_of(env_lang_opt.val, env_language_opt)
         IN  IF \E i \in 1..Len(locales) : slice_panics(locales[i])
             THEN Panicked
             ELSE Returned(clear_duplicates(Append(push_all(locales), en)))

-----------------------------------------------------------------------------
(* Inputs of get_languages *)

Alphabet == {"e", "n", "_", "é"}

RECURSIVE StringsUpTo(_)
StringsUpTo(n) ==
    IF n = 0 THEN {<<>>}
    ELSE LET S == StringsUpTo(n - 1)
         IN  S \cup {Append(s, c) : s \in {t \in S : Len(t) = n - 1}, c \in Alphabet}

LocaleSeeds ==
    { <<>>, <<"C">>, POSIX, en,
      <<"d", "e">>, <<"f", "r">>, <<"c", "n">>,
      <<"p", "t", "_", "B", "R">>,
      <<"e", "n", "_", "U", "S", ".", "U", "T", "F", "-", "8">>,
      <<"d", "e", "_", "D", "E">>,
      <<"a", "é">>, <<"é", "é", "_", "A", "B">> }

EntrySeeds ==
    { <<>>, <<"C">>, POSIX, en, <<"d", "e">>, <<"f", "r">>,
      <<"p", "t", "_", "B", "R">>, <<"a", "é">> }

RECURSIVE join(_, _)
join(list, sep) ==
    IF list = <<>> THEN <<>>
    ELSE IF Len(list) = 1 THEN Head(list)
    ELSE Head(list) \o <<sep>> \o join(Tail(list), sep)

EntryLists == UNION {[1..n -> EntrySeeds] : n \in 0..MaxEntries}

LanguageValues == {join(l, ":") : l \in EntryLists}

FewLanguageValues == { <<>>, <<"e", "n", ":", "d", "e">>, <<"f", "r", ":", "c", "n">> }

LangInputs ==
    ({None} \cup {Some(s) : s \in StringsUpTo(MaxLocaleLen) \cup LocaleSeeds})
        \X ({None} \cup {Some(s) : s \in FewLanguageValues})
    \cup
    ({None} \cup {Some(s) : s \in LocaleSeeds})
        \X ({None} \cup {Some(s) : s \in LanguageValues})

-----------------------------------------------------------------------------
(* The collaborators of main *)

\* TealdeerError: CacheError | ConfigError | UpdateError
ErrorKinds == {"CacheError", "ConfigError", "UpdateError"}

\* A call main makes (or an exit it takes), with its result.
Event(op, res, idx) == [op |-> op, res |-> res, idx |-> idx]

\* A line of text on stdout or stderr; the output of one page file.
Line(text) == [text |-> text, path |-> 0]
PageOutput(i) == [text |-> "page", path |-> i]
PartialPageOutput(i) == [text |-> "partial page", path |-> i]

\* Option<Duration>
NoAge == [some |-> FALSE, val |-> 0]
SomeAge(a) == [some |-> TRUE, val |-> a]

\* The cache directory: never populated (or wiped), or populated some time ago.
NeverPopulated == [populated |-> FALSE, age |-> 0]
Populated(a) == [populated |-> TRUE, age |-> a]

\* Cache::last_update: the time since the last successful update, if any
last_update(disk) == IF disk.populated THEN SomeAge(disk.age) ELSE NoAge

\* Cache::clear, on success: the cache root is removed
cleared(disk) == NeverPopulated

\* Cache::update, on success: the cache is populated as of now
updated(disk) == Populated(0)

\* config::MAX_CACHE_AGE, in the model's units of time
MAX_CACHE_AGE == 1

LastUpdateEvent(disk) ==
    Event("last_update", IF last_update(disk).some THEN "some" ELSE "none",
          last_update(disk).val)

-----------------------------------------------------------------------------
(* The pure parts of main *)

\* lines 156-160, with `>` for `>=`
should_update_cache_strict(a, c, disk) ==
    \/ a.update
    \/ /\ c.auto_update
       /\ LET ago == last_update(disk)
          IN  ~ago.some \/ ago.val > c.auto_update_interval

\* lines 156-160
should_update_cache(a, c, disk) ==
    \/ a.update
    \/ /\ c.auto_update
       /\ LET ago == last_update(disk)
          IN  ~ago.some \/ ago.val >= c.auto_update_interval

\* lines 157-159: Cache::last_update is called unless `||` or `&&` cut it short
should_update_cache_calls(a, c, disk) ==
    IF ~a.update /\ c.auto_update THEN <<LastUpdateEvent(disk)>> ELSE <<>>

\* lines 163-192 with the None arm falling through
check_cache_without_exit(a, disk) ==
    LET ago == last_update(disk)
    IN  IF ago.some /\ ago.val > MAX_CACHE_AGE /\ ~a.quiet
        THEN [exit |-> FALSE, err |-> <<Line("The cache hasn't been updated")>>]
        ELSE [exit |-> FALSE, err |-> <<>>]

\* lines 163-192: whether check_cache exits the process, and what it reports
check_cache(a, disk) ==
    LET ago == last_update(disk)
    IN  IF ago.some /\ ago.val > MAX_CACHE_AGE
        THEN IF a.quiet
             THEN [exit |-> FALSE, err |-> <<>>]
             ELSE [exit |-> FALSE, err |-> <<Line("The cache hasn't been updated")>>]
        ELSE IF ago.some
        THEN [exit |-> FALSE, err |-> <<>>]
        ELSE [exit |-> TRUE, err |-> <<Line("Cache not found")>>]

\* lines 466, 477, 499 with the list branch tested before the render branch
dispatch_list_first(a) ==
    IF a.list THEN "list"
    ELSE IF a.render THEN "render"
    ELSE IF a.command THEN "command"
    ELSE "return"

\* lines 466, 477, 499: the branch main takes after the cache steps
dispatch(a) ==
    IF a.render THEN "render"
    ELSE IF a.list THEN "list"
    ELSE IF a.command THEN "command"
    ELSE "return"

\* lines 508-510 with the override added in front of the environment's list
language_list_override_first(a, lang, language) ==
    IF a.language.some
    THEN LET fromenv == get_languages(lang, language)
         IN  IF fromenv.panic THEN fromenv
             ELSE Returned(<<a.language.val>> \o fromenv.list)
    ELSE get_languages(lang, language)

\* lines 508-510: the --language override, or the list from the environment
language_list(a, lang, language) ==
    IF a.language.some THEN Returned(<<a.language.val>>)
    ELSE get_languages(lang, language)

\* lines 524-528: what a resolution miss prints
not_found_report(a) ==
    IF a.quiet THEN <<>>
    ELSE << Line("Page not found in cache"),
            Line("Try updating with tldr --update, or submit a pull request to:"),
            Line("https://github.com/tldr-pages/tldr") >>

-----------------------------------------------------------------------------
(* main, step by step *)

Log(events) == trace' = trace \o events

\* process::exit(code)
Exit(code) == pc' = "exited" /\ status' = code

Terminated == pc \in {"exited", "panicked"}

\* lines 393-396 and 225-229: --config-path, the path is shown and main goes on
\* (--show-paths, lines 397-399, only prints and is left out, as is the pager)
ShowConfigPathOk ==
    /\ pc = "start"
    /\ args.config_path
    /\ Log(<<Event("get_config_path", "ok", 0)>>)
    /\ stderr' = Append(stderr, Line("Warning: The --config-path flag is deprecated"))
    /\ stdout' = Append(stdout, Line("Config path is"))
    /\ pc' = "seed"
    /\ UNCHANGED <<langvars, args, config, cache, cache_updated, status, page, path_idx>>

\* lines 230-237: the configuration path cannot be looked up
ShowConfigPathErr(kind) ==
    /\ pc = "start"
    /\ args.config_path
    /\ Log(<<Event("get_config_path", kind, 0), Event("exit", "-", 1)>>)
    /\ stderr' = stderr \o <<Line("Warning: The --config-path flag is deprecated"),
                              Line("Could not look up config_path")>>
    /\ Exit(1)
    /\ UNCHANGED <<langvars, args, config, cache, cache_updated, stdout, page, path_idx>>

\* line 393: no --config-path
SkipConfigPath ==
    /\ pc = "start"
    /\ ~args.config_path
    /\ pc' = "seed"
    /\ UNCHANGED <<langvars, args, config, cache, cache_updated, status, trace,
                   stdout, stderr, page, path_idx>>

\* lines 402-404 and 284-302: --seed-config writes the file and exits
CreateConfigAndExit ==
    /\ pc = "seed"
    /\ args.seed_config
    /\ \E ok \in BOOLEAN :
           /\ Log(<<Event("make_default_config", IF ok THEN "ok" ELSE "ConfigError", 0),
                    Event("exit", "-", IF ok THEN 0 ELSE 1)>>)
           /\ stdout' = IF ok THEN Append(stdout, Line("Successfully created seed config file"))
                        ELSE stdout
           /\ stderr' = IF ok THEN stderr
                        ELSE Append(stderr, Line("Could not create seed config"))
           /\ Exit(IF ok THEN 0 ELSE 1)
    /\ UNCHANGED <<langvars, args, config, cache, cache_updated, page, path_idx>>

\* lines 427-428: the configuration loads
LoadConfigOk ==
    /\ pc = "seed"
    /\ ~args.seed_config
    /\ Log(<<Event("Config::load", "ok", 0)>>)
    /\ pc' = "clear"
    /\ UNCHANGED <<langvars, args, config, cache, cache_updated, status, stdout,
                   stderr, page, path_idx>>

\* lines 429-436: the configuration cannot be loaded
LoadConfigErr(kind) ==
    /\ pc = "seed"
    /\ ~args.seed_config
    /\ Log(<<Event("Config::load", kind, 0), Event("exit", "-", 1)>>)
    /\ stderr' = Append(stderr, Line("Could not load config"))
    /\ Exit(1)
    /\ UNCHANGED <<langvars, args, config, cache, cache_updated, stdout, page, path_idx>>

\* lines 453-455 and 195-207: --clear-cache, the cache is deleted
ClearCacheOk ==
    /\ pc = "clear"
    /\ args.clear_cache
    /\ Log(<<Event("clear", "ok", 0)>>)
    /\ cache' = cleared(cache)
    /\ stdout' = IF args.quiet THEN stdout
                 ELSE Append(stdout, Line("Successfully deleted cache."))
    /\ pc' = "update"
    /\ UNCHANGED <<langvars, args, config, cache_updated, status, stderr, page, path_idx>>

\* lines 196-203 with the exit left out: the failure is reported and main goes on
ClearCacheErrContinues(kind) ==
    /\ pc = "clear"
    /\ args.clear_cache
    /\ Log(<<Event("clear", kind, 0)>>)
    /\ stderr' = Append(stderr, Line("Could not delete cache"))
    /\ pc' = "update"
    /\ UNCHANGED <<langvars, args, config, cache, cache_updated, status, stdout,
                   page, path_idx>>

\* lines 196-203: Cache::clear fails; the error is printed and the process exits
ClearCacheErr(kind) ==
    /\ pc = "clear"
    /\ args.clear_cache
    /\ Log(<<Event("clear", kind, 0), Event("exit", "-", 1)>>)
    /\ stderr' = Append(stderr, Line("Could not delete cache"))
    /\ Exit(1)
    /\ UNCHANGED <<langvars, args, config, cache, cache_updated, stdout, page, path_idx>>

\* line 453: no --clear-cache
SkipClearCache ==
    /\ pc = "clear"
    /\ ~args.clear_cache
    /\ pc' = "update"
    /\ UNCHANGED <<langvars, args, config, cache, cache_updated, status, trace,
                   stdout, stderr, page, path_idx>>

\* lines 458-460 and 210-222: the cache is updated
UpdateCacheOk ==
    /\ pc = "update"
    /\ should_update_cache(args, config, cache)
    /\ Log(should_update_cache_calls(args, config, cache) \o <<Event("update", "ok", 0)>>)
    /\ cache' = updated(cache)
    /\ cache_updated' = TRUE
    /\ stdout' = IF args.quiet THEN stdout
                 ELSE Append(stdout, Line("Successfully updated cache."))
    /\ pc' = "dispatch"
    /\ UNCHANGED <<langvars, args, config, status, stderr, page, path_idx>>

\* lines 211-218: Cache::update fails; the error is printed and the process exits
UpdateCacheErr(kind) ==
    /\ pc = "update"
    /\ should_update_cache(args, config, cache)
    /\ Log(should_update_cache_calls(args, config, cache)
           \o <<Event("update", kind, 0), Event("exit", "-", 1)>>)
    /\ stderr' = Append(stderr, Line("Could not update cache"))
    /\ Exit(1)
    /\ UNCHANGED <<langvars, args, config, cache, cache_updated, stdout, page, path_idx>>

\* lines 461-463: no update is due
SkipUpdate ==
    /\ pc = "update"
    /\ ~should_update_cache(args, config, cache)
    /\ Log(should_update_cache_calls(args, config, cache))
    /\ cache_updated' = FALSE
    /\ pc' = "dispatch"
    /\ UNCHANGED <<langvars, args, config, cache, status, stdout, stderr, page, path_idx>>

\* lines 466-467: --render, a PageLookupResult of that one path is printed
RenderFile ==
    /\ pc = "dispatch"
    /\ dispatch(args) = "render"
    /\ Log(<<Event("with_page", "-", 1), Event("print_page", "-", 1)>>)
    /\ page' = 1
    /\ path_idx' = 1
    /\ pc' = "print_open"
    /\ UNCHANGED <<langvars, args, config, cache, cache_updated, status, stdout, stderr>>

\* lines 478-481 and 503-505: check_cache unless the cache was just updated
CheckCacheThen(next) ==
    IF cache_updated
    THEN /\ pc' = next
         /\ UNCHANGED <<trace, stderr, status>>
    ELSE LET checked == check_cache(args, cache)
             seen == IF last_update(cache).some THEN "some" ELSE "none"
         IN  /\ stderr' = stderr \o checked.err
             /\ IF checked.exit
                THEN /\ Log(<<LastUpdateEvent(cache), Event("check_cache", seen, 0),
                              Event("exit", "-", 1)>>)
                     /\ Exit(1)
                ELSE /\ Log(<<LastUpdateEvent(cache), Event("check_cache", seen, 0)>>)
                     /\ pc' = next
                     /\ UNCHANGED status

\* lines 477-481: --list, first the freshness check
ListCheckCache ==
    /\ pc = "dispatch"
    /\ dispatch(args) = "list"
    /\ CheckCacheThen("list_pages")
    /\ UNCHANGED <<langvars, args, config, cache, cache_updated, stdout, page, path_idx>>

\* lines 484, 494-495: the pages are listed
ListPagesOk ==
    /\ pc = "list_pages"
    /\ Log(<<Event("list_pages", "ok", 0), Event("exit", "-", 0)>>)
    /\ stdout' = Append(stdout, Line("the list of pages"))
    /\ Exit(0)
    /\ UNCHANGED <<langvars, args, config, cache, cache_updated, stderr, page, path_idx>>

\* lines 484-491: Cache::list_pages fails
ListPagesErr(kind) ==
    /\ pc = "list_pages"
    /\ Log(<<Event("list_pages", kind, 0), Event("exit", "-", 1)>>)
    /\ stderr' = Append(stderr, Line("Could not get list of pages"))
    /\ Exit(1)
    /\ UNCHANGED <<langvars, args, config, cache, cache_updated, stdout, page, path_idx>>

\* lines 499-505: a command, first the freshness check
CommandCheckCache ==
    /\ pc = "dispatch"
    /\ dispatch(args) = "command"
    /\ CheckCacheThen("languages")
    /\ UNCHANGED <<langvars, args, config, cache, cache_updated, stdout, page, path_idx>>

\* lines 498-499, 532: nothing to render, list or look up; main returns
MainReturns ==
    /\ pc = "dispatch"
    /\ dispatch(args) = "return"
    /\ Log(<<Event("return", "-", 0)>>)
    /\ Exit(0)
    /\ UNCHANGED <<langvars, args, config, cache, cache_updated, stdout, stderr,
                   page, path_idx>>

\* The values of $LANG and $LANGUAGE a run may find in its environment.
EnvInputs ==
    {None, Some(en), Some(<<"d", "e">>), Some(POSIX), Some(<<"a", "é">>),
     Some(<<"p", "t", "_", "B", "R">>)}
    \X {None, Some(<<"e", "n", ":", "d", "e">>), Some(<<"f", "r", ":", "d", "e">>)}

\* lines 508-510 and 378-383: the language list is built
BuildLanguages ==
    /\ pc = "languages"
    /\ \E in \in EnvInputs :
           /\ IF args.language.some
              THEN UNCHANGED <<env_lang, env_language>>
              ELSE env_lang' = in[1] /\ env_language' = in[2]
           /\ languages' = language_list(args, in[1], in[2])
    /\ IF languages'.panic
       THEN /\ pc' = "panicked"
            /\ status' = 101
            /\ Log(<<Event("panic", "get_languages", 0)>>)
       ELSE /\ pc' = "find_page"
            /\ UNCHANGED <<status, trace>>
    /\ UNCHANGED <<lang_pc, args, config, cache, cache_updated, stdout, stderr,
                   page, path_idx>>

\* lines 513-518: Cache::find_page resolves the command to n files
FindPageSome(n) ==
    /\ pc = "find_page"
    /\ Log(<<Event("find_page", "some", n), Event("print_page", "-", n)>>)
    /\ page' = n
    /\ path_idx' = 1
    /\ pc' = "print_open"
    /\ UNCHANGED <<langvars, args, config, cache, cache_updated, status, stdout, stderr>>

\* lines 523-530 with the miss reported the way an unreadable page is
FindPageNoneAsIoError ==
    /\ pc = "find_page"
    /\ Log(<<Event("find_page", "none", 0), Event("exit", "-", 1)>>)
    /\ stderr' = Append(stderr, Line("Could not open file"))
    /\ Exit(1)
    /\ UNCHANGED <<langvars, args, config, cache, cache_updated, stdout, page, path_idx>>

\* lines 523-530: Cache::find_page finds nothing
FindPageNone ==
    /\ pc = "find_page"
    /\ Log(<<Event("find_page", "none", 0), Event("exit", "-", 1)>>)
    /\ stdout' = stdout \o not_found_report(args)
    /\ Exit(1)
    /\ UNCHANGED <<langvars, args, config, cache, cache_updated, stderr, page, path_idx>>

-----------------------------------------------------------------------------
(* print_page, one step per file operation; its caller (lines 468-473 and  *)
(* 518-522) prints the error and exits with 1, or exits with 0.            *)

\* line 127: the file opens
PrintOpenOk ==
    /\ pc = "print_open"
    /\ Log(<<Event("open", "ok", path_idx)>>)
    /\ pc' = "print_emit"
    /\ UNCHANGED <<langvars, args, config, cache, cache_updated, status, stdout,
                   stderr, page, path_idx>>

\* line 127 with the error dropped: the unreadable file is skipped
PrintOpenErrSkips ==
    /\ pc = "print_open"
    /\ Log(<<Event("open", "err", path_idx)>>
           \o IF path_idx = page
              THEN <<Event("print_page_return", "ok", 0), Event("exit", "-", 0)>>
              ELSE <<>>)
    /\ IF path_idx = page
       THEN Exit(0) /\ UNCHANGED path_idx
       ELSE pc' = "print_open" /\ path_idx' = path_idx + 1 /\ UNCHANGED status
    /\ UNCHANGED <<langvars, args, config, cache, cache_updated, stdout, stderr, page>>

\* line 127: File::open fails, `?` returns the error to main
PrintOpenErr ==
    /\ pc = "print_open"
    /\ Log(<<Event("open", "err", path_idx), Event("print_page_return", "err", 0),
             Event("exit", "-", 1)>>)
    /\ stderr' = Append(stderr, Line("Could not open file"))
    /\ Exit(1)
    /\ UNCHANGED <<langvars, args, config, cache, cache_updated, stdout, page, path_idx>>

\* lines 130-139: the opened file is printed, raw or rendered
PrintEmit ==
    /\ pc = "print_emit"
    /\ stdout' = Append(stdout, PageOutput(path_idx))
    /\ IF path_idx = page
       THEN /\ Log(<<Event("emit", "ok", path_idx), Event("print_page_return", "ok", 0),
                     Event("exit", "-", 0)>>)
            /\ Exit(0)
            /\ UNCHANGED path_idx
       ELSE /\ Log(<<Event("emit", "ok", path_idx)>>)
            /\ path_idx' = path_idx + 1
            /\ pc' = "print_open"
            /\ UNCHANGED status
    /\ UNCHANGED <<langvars, args, config, cache, cache_updated, stderr, page>>

\* line 133: in raw mode a line that cannot be read panics in unwrap()
PrintEmitPanic ==
    /\ pc = "print_emit"
    /\ args.markdown
    /\ \E some_lines \in BOOLEAN :
           stdout' = IF some_lines THEN Append(stdout, PartialPageOutput(path_idx))
                     ELSE stdout
    /\ Log(<<Event("emit", "panic", path_idx)>>)
    /\ pc' = "panicked"
    /\ status' = 101
    /\ UNCHANGED <<langvars, args, config, cache, cache_updated, stderr, page, path_idx>>

-----------------------------------------------------------------------------
(* One invocation of main *)

ArgsValues ==
    [ update : BOOLEAN, clear_cache : BOOLEAN, list : BOOLEAN,
      render : BOOLEAN,         \* --render FILE was given
      command : BOOLEAN,        \* a command name was given
      language : {None, Some(<<"d", "e">>)},
      quiet : BOOLEAN, markdown : BOOLEAN,
      config_path : BOOLEAN, seed_config : BOOLEAN ]

ConfigValues == [auto_update : BOOLEAN, auto_update_interval : 0..MaxAge]

CacheValues == {NeverPopulated} \cup {Populated(a) : a \in 0..MaxAge}

Init ==
    /\ args \in ArgsValues
    /\ config \in ConfigValues
    /\ cache \in CacheValues
    /\ cache_updated = FALSE
    /\ pc = "start"
    /\ status = -1
    /\ trace = <<>>
    /\ stdout = <<>>
    /\ stderr = <<>>
    /\ page = 0
    /\ path_idx = 0
    /\ env_lang = None
    /\ env_language = None
    /\ languages = Returned(<<>>)
    /\ lang_pc = "ready"

Next ==
    \/ ShowConfigPathOk
    \/ \E kind \in ErrorKinds : ShowConfigPathErr(kind)
    \/ SkipConfigPath
    \/ CreateConfigAndExit
    \/ LoadConfigOk
    \/ \E kind \in ErrorKinds : LoadConfigErr(kind)
    \/ ClearCacheOk
    \/ \E kind \in ErrorKinds : ClearCacheErr(kind)
    \/ SkipClearCache
    \/ UpdateCacheOk
    \/ \E kind \in ErrorKinds : UpdateCacheErr(kind)
    \/ SkipUpdate
    \/ RenderFile
    \/ ListCheckCache
    \/ ListPagesOk
    \/ \E kind \in ErrorKinds : ListPagesErr(kind)
    \/ CommandCheckCache
    \/ MainReturns
    \/ BuildLanguages
    \/ \E n \in 1..MaxPaths : FindPageSome(n)
    \/ FindPageNone
    \/ PrintOpenOk
    \/ PrintOpenErr
    \/ PrintEmit
    \/ PrintEmitPanic

Spec == Init /\ [][Next]_vars

-----------------------------------------------------------------------------
(* The specification of get_languages on its own *)

LangInit ==
    /\ \E in \in LangInputs : env_lang = in[1] /\ env_language = in[2]
    /\ languages = Returned(<<>>)
    /\ lang_pc = "ready"
    /\ args = [ update |-> FALSE, clear_cache |-> FALSE, list |-> FALSE,
                render |-> FALSE, command |-> TRUE, language |-> None,
                quiet |-> FALSE, markdown |-> FALSE, config_path |-> FALSE,
                seed_config |-> FALSE ]
    /\ config = [auto_update |-> FALSE, auto_update_interval |-> 0]
    /\ cache = NeverPopulated
    /\ cache_updated = FALSE
    /\ pc = "languages"
    /\ status = -1
    /\ trace = <<>>
    /\ stdout = <<>>
    /\ stderr = <<>>
    /\ page = 0
    /\ path_idx = 0

CallGetLanguages ==
    /\ lang_pc = "ready"
    /\ languages' = get_languages(env_lang, env_language)
    /\ lang_pc' = IF languages'.panic THEN "panicked" ELSE "returned"
    /\ UNCHANGED <<env_lang, env_language, mainvars>>

LangNext == CallGetLanguages

SpecLang == LangInit /\ [][LangNext]_vars

-----------------------------------------------------------------------------
(* The language list as the specification words it, over characters:       *)
(* entries between colons, then $LANG; per candidate its first 5           *)
(* characters when it has at least 5 with '_' third, then its first 2      *)
(* characters when it has at least 2 and is not "POSIX"; then "en"; first  *)
(* occurrences only.                                                       *)

RefEntries(s) ==
    LET colons == {i \in 1..Len(s) : s[i] = ":"}
        cuts == {0, Len(s) + 1} \cup colons
        starts == cuts \ {Len(s) + 1}
        nth(k) == CHOOSE c \in starts : Cardinality({d \in starts : d < c}) = k - 1
        stop(c) == CHOOSE d \in cuts : d > c /\ \A x \in cuts : x > c => d <= x
    IN  [k \in 1..Cardinality(starts) |-> SubSeq(s, nth(k) + 1, stop(nth(k)) - 1)]

RefCodes(c) ==
    (IF Len(c) >= 5 /\ c[3] = "_" THEN <<SubSeq(c, 1, 5)>> ELSE <<>>)
    \o (IF Len(c) >= 2 /\ c # POSIX THEN <<SubSeq(c, 1, 2)>> ELSE <<>>)

RECURSIVE RefFlatten(_)
RefFlatten(cands) ==
    IF cands = <<>> THEN <<>> ELSE RefCodes(Head(cands)) \o RefFlatten(Tail(cands))

RefFirstOccurrences(list) ==
    LET keep == {i \in 1..Len(list) : \A j \in 1..(i - 1) : list[j] # list[i]}
        nth(k) == CHOOSE i \in keep : Cardinality({j \in keep : j < i}) = k - 1
    IN  [k \in 1..Cardinality(keep) |-> list[nth(k)]]

RefCandidates(lang, language_opt) ==
    (IF language_opt.some THEN RefEntries(language_opt.val) ELSE <<>>) \o <<lang>>

RefLanguages(lang_opt, language_opt) ==
    IF ~lang_opt.some THEN <<en>>
    ELSE RefFirstOccurrences(
             Append(RefFlatten(RefCandidates(lang_opt.val, language_opt)), en))

NoDuplicates(list) ==
    \A i, j \in 1..Len(list) : list[i] = list[j] => i = j

IsAscii(s) == \A i \in 1..Len(s) : s[i] \notin TwoByteChars

IsPrefix(p, s) == Len(p) <= Len(s) /\ SubSeq(s, 1, Len(p)) = p

\* The candidate locales of the run: the entries of $LANGUAGE, then $LANG.
Candidates == locales_of(env_lang.val, env_language)

IsSentinel(locale) == locale = POSIX \/ locale = <<"C">>

-----------------------------------------------------------------------------
(* Claims about get_languages *)

\* C1 as stated: the list returned by get_languages is non-empty, its last
\* element is "en", and no element occurs twice.
C1_NonEmptyEndsWithEnNoDuplicates ==
    lang_pc = "returned" =>
        /\ Len(languages.list) >= 1
        /\ languages.list[Len(languages.list)] = en
        /\ NoDuplicates(languages.list)

\* C1 amended: the list returned by get_languages is non-empty, contains
\* "en", and no element occurs twice; "en" is its last element whenever no
\* candidate locale begins with "en" (a candidate that does puts "en" at its
\* first-seen place, where deduplication keeps it).
C1_NonEmptyContainsEnNoDuplicates ==
    lang_pc = "returned" =>
        /\ Len(languages.list) >= 1
        /\ \E i \in 1..Len(languages.list) : languages.list[i] = en
        /\ NoDuplicates(languages.list)
        /\ (env_lang.some /\ \A k \in 1..Len(Candidates) : ~IsPrefix(en, Candidates[k]))
               => languages.list[Len(languages.list)] = en
        /\ ~env_lang.some => languages.list = <<en>>

\* C1 witness: "en" was preferred over another language, and stays first.
C1_Witness ==
    /\ lang_pc = "returned"
    /\ Len(languages.list) >= 2
    /\ languages.list[1] = en
    /\ env_language.some

\* C2 as stated: for every input get_languages equals the reference
\* algorithm over characters.
C2_EqualsReference ==
    lang_pc # "ready" =>
        /\ ~languages.panic
        /\ languages.list = RefLanguages(env_lang, env_language)

\* C2 restricted to ASCII locale values, where bytes and characters agree:
\* get_languages returns and equals the reference algorithm.
C2_EqualsReferenceOnAscii ==
    (lang_pc # "ready" /\ IsAscii(unwrap_or(env_lang, <<>>))
                       /\ IsAscii(unwrap_or(env_language, <<>>))) =>
        /\ ~languages.panic
        /\ languages.list = RefLanguages(env_lang, env_language)

\* C3: a candidate locale equal to "POSIX" or "C" contributes no language
\* code of its own, wherever it appears: every code of the result other than
\* the default stems from a candidate that is neither, the result is the one
\* the other candidates alone give, and with $LANG "POSIX" or "C" and no
\* $LANGUAGE the result is exactly ["en"].
C3_SentinelsContributeNothing ==
    (lang_pc = "returned" /\ env_lang.some) =>
        /\ \A i \in 1..Len(languages.list) :
               \/ languages.list[i] = en
               \/ \E k \in 1..Len(Candidates) :
                      /\ ~IsSentinel(Candidates[k])
                      /\ IsPrefix(languages.list[i], Candidates[k])
        /\ languages.list =
               clear_duplicates(Append(
                   push_all(SelectSeq(Candidates, LAMBDA c : ~IsSentinel(c))), en))
        /\ (IsSentinel(env_lang.val) /\ ~env_language.some) => languages.list = <<en>>

\* C3 witness: "POSIX" as $LANG and "C" among the entries of $LANGUAGE, next
\* to a real language.
C3_Witness ==
    /\ lang_pc = "returned"
    /\ env_lang = Some(POSIX)
    /\ env_language.some
    /\ \E k \in 1..Len(Candidates) : Candidates[k] = <<"C">>
    /\ Len(languages.list) >= 2

-----------------------------------------------------------------------------
(* Observations on a run of main *)

Has(op) == \E i \in 1..Len(trace) : trace[i].op = op

HasRes(op, res) == \E i \in 1..Len(trace) : trace[i].op = op /\ trace[i].res = res

Count(op) == Cardinality({i \in 1..Len(trace) : trace[i].op = op})

IsErr(e) == e.res \in ErrorKinds

\* The run ended before the cache steps were through: a configuration path
\* that cannot be looked up (--config-path), --seed-config, a configuration
\* that does not load, or a clear that fails.
ExitedBeforeUpdateStep ==
    \/ Has("make_default_config")
    \/ \E i \in 1..Len(trace) :
           trace[i].op \in {"get_config_path", "Config::load", "clear"} /\ IsErr(trace[i])

\* The run ended before the render, list and lookup steps.
ExitedBeforeDispatch ==
    \/ ExitedBeforeUpdateStep
    \/ \E i \in 1..Len(trace) : trace[i].op = "update" /\ IsErr(trace[i])

\* The configuration loaded: the run got as far as the cache steps.
ConfigLoaded == HasRes("Config::load", "ok")

UpdateStepDone == pc \notin {"start", "seed", "clear", "update"} /\ ~ExitedBeforeUpdateStep

LookupCalls == {"find_page", "list_pages"}

-----------------------------------------------------------------------------
(* Claims about a run of main *)

HandedToFindPage == pc = "find_page" \/ Has("find_page")

\* C4 as stated: the language list handed to find_page, from the environment
\* or from --language, is duplicate-free and ends with "en".
C4_HandedListEndsWithEn ==
    HandedToFindPage =>
        /\ ~languages.panic
        /\ Len(languages.list) >= 1
        /\ NoDuplicates(languages.list)
        /\ languages.list[Len(languages.list)] = en

\* C4 amended: the language list handed to find_page is non-empty and
\* duplicate-free; with --language L it is exactly [L] (no "en" is added);
\* built from the environment it contains "en", which is its last element
\* whenever no candidate locale begins with "en", and it is ["en"] when $LANG
\* is unset.
C4_HandedListWellFormed ==
    HandedToFindPage =>
        /\ ~languages.panic
        /\ Len(languages.list) >= 1
        /\ NoDuplicates(languages.list)
        /\ args.language.some => languages.list = <<args.language.val>>
        /\ ~args.language.some =>
               /\ \E i \in 1..Len(languages.list) : languages.list[i] = en
               /\ ~env_lang.some => languages.list = <<en>>
               /\ (env_lang.some
                   /\ \A k \in 1..Len(Candidates) : ~IsPrefix(en, Candidates[k]))
                      => languages.list[Len(languages.list)] = en

\* C4 witness: find_page was called with a list of three codes or more built
\* from the environment.
C4_Witness ==
    /\ Has("find_page")
    /\ ~args.language.some
    /\ Len(languages.list) >= 3

\* Before every find_page or list_pages call, update() succeeded in this run
\* or check_cache ran and saw Some.
FreshBeforeLookup ==
    \A i \in 1..Len(trace) :
        trace[i].op \in LookupCalls =>
            \E j \in 1..(i - 1) :
                \/ trace[j].op = "update" /\ trace[j].res = "ok"
                \/ trace[j].op = "check_cache" /\ trace[j].res = "some"

NoLookup == \A i \in 1..Len(trace) : trace[i].op \notin LookupCalls

\* C5 as stated: before find_page or list_pages the cache was ensured fresh;
\* and a run whose cache is unpopulated (never populated, or wiped by
\* --clear-cache) and in which no update happens ends with exit status 1
\* without calling find_page or list_pages.  (Read for the runs whose
\* configuration loaded, the ones that get to the cache steps.)
C5_FreshnessAndExitOne ==
    /\ FreshBeforeLookup
    /\ (Terminated /\ ConfigLoaded /\ ~cache.populated /\ ~Has("update"))
           => (status = 1 /\ NoLookup)

\* C5 amended: before find_page or list_pages the cache was ensured fresh; a
\* run whose cache is unpopulated and in which no update happens never calls
\* find_page or list_pages; and if that run gets to the --list or command
\* step (it did not exit earlier, renders no file, and has --list or a
\* command) it ends with exit status 1.
C5_FreshnessBeforeLookup ==
    /\ FreshBeforeLookup
    /\ (~cache.populated /\ ~Has("update")) => NoLookup
    /\ (/\ Terminated /\ ~cache.populated /\ ~Has("update")
        /\ ~ExitedBeforeDispatch
        /\ ~args.render /\ (args.list \/ args.command))
           => (status = 1 /\ HasRes("check_cache", "none"))

\* C5 witness: the cache was wiped by --clear-cache in this run, no update
\* followed, and the lookup step was reached.
C5_Witness ==
    /\ Terminated
    /\ HasRes("clear", "ok")
    /\ ~Has("update")
    /\ args.command /\ ~args.list /\ ~args.render
    /\ status = 1

NoCacheLookupCalls ==
    \A i \in 1..Len(trace) : trace[i].op \notin (LookupCalls \cup {"check_cache"})

\* C6 as stated: with --render the run builds a one-path PageLookupResult,
\* prints it and ends (0 on success, 1 if the file cannot be opened) without
\* check_cache, list_pages or find_page.  (Read for the runs whose
\* configuration loaded.)
C6_RenderAlwaysPrints ==
    (Terminated /\ ConfigLoaded /\ args.render) =>
        /\ NoCacheLookupCalls
        /\ Has("with_page") /\ page = 1
        /\ HasRes("print_page_return", "ok") => status = 0
        /\ HasRes("open", "err") => status = 1

\* C6 amended: with --render the run never calls check_cache, list_pages or
\* find_page, whatever else is on the command line; if it gets to the render
\* step (no exit before through --config-path or --seed-config, a
\* configuration failure, or a failed clear or update) it builds a one-path
\* PageLookupResult, opens that one file and ends: 0 when print_page returns
\* Ok, 1 when the file cannot be opened, and otherwise by the panic of a
\* failed read in raw mode.
C6_RenderBypassesCache ==
    args.render =>
        /\ NoCacheLookupCalls
        /\ (Terminated /\ ~ExitedBeforeDispatch) =>
               /\ Has("with_page") /\ page = 1
               /\ Count("open") = 1
               /\ HasRes("print_page_return", "ok") => status = 0
               /\ HasRes("open", "err") => status = 1
               /\ \/ HasRes("print_page_return", "ok")
                  \/ HasRes("open", "err")
                  \/ args.markdown /\ HasRes("emit", "panic") /\ pc = "panicked"
        /\ (Terminated /\ ExitedBeforeDispatch) => ~Has("with_page")

\* C6 witness: --render together with --list and a command; the file was
\* printed and the run ended with 0.
C6_Witness ==
    /\ Terminated
    /\ args.render /\ args.list /\ args.command
    /\ HasRes("print_page_return", "ok")
    /\ status = 0

FailureLines == {Line("Could not delete cache"), Line("Could not update cache")}

\* C7: clear() and update() are each called at most once; when either fails
\* (with any of the three kinds) the error is printed once, the process exits
\* with 1, and nothing runs after it.
C7_FailureEndsTheRun ==
    /\ Count("clear") <= 1
    /\ Count("update") <= 1
    /\ \A i \in 1..Len(trace) :
           (trace[i].op \in {"clear", "update"} /\ IsErr(trace[i])) =>
               /\ Len(trace) = i + 1
               /\ trace[i + 1] = Event("exit", "-", 1)
               /\ pc = "exited" /\ status = 1
               /\ Cardinality({k \in 1..Len(stderr) : stderr[k] \in FailureLines}) = 1
               /\ stderr[Len(stderr)] =
                      (IF trace[i].op = "clear" THEN Line("Could not delete cache")
                       ELSE Line("Could not update cache"))
               /\ page = 0
               /\ trace[i].op = "clear" => ~Has("update")

\* C7 witness: the clear succeeded and the update then failed with a
\* configuration error.
C7_Witness ==
    /\ HasRes("clear", "ok")
    /\ HasRes("update", "ConfigError")

ReportTexts ==
    { "Page not found in cache",
      "Try updating with tldr --update, or submit a pull request to:",
      "https://github.com/tldr-pages/tldr",
      "Could not open file" }

ReportLines(out) == SelectSeq(out, LAMBDA l : l.text \in ReportTexts)

\* What the run reports about the lookup: exit status and messages.
Reported ==
    [status |-> status, out |-> ReportLines(stdout), err |-> ReportLines(stderr)]

MissOutcome(quiet) ==
    [ status |-> 1,
      out |-> IF quiet THEN <<>>
              ELSE << Line("Page not found in cache"),
                      Line("Try updating with tldr --update, or submit a pull request to:"),
                      Line("https://github.com/tldr-pages/tldr") >>,
      err |-> <<>> ]

OpenFailureOutcome ==
    [status |-> 1, out |-> <<>>, err |-> <<Line("Could not open file")>>]

\* C8: a run whose lookup misses and a run whose resolved page cannot be
\* opened report differently, whatever --quiet is: the miss prints the
\* "not found" lines (nothing when quiet) and nothing on stderr, the open
\* failure prints "Could not open file" on stderr.
C8_MissDistinctFromIoFailure ==
    /\ (Terminated /\ HasRes("find_page", "none")) => Reported = MissOutcome(args.quiet)
    /\ (Terminated /\ HasRes("find_page", "some") /\ HasRes("open", "err"))
           => Reported = OpenFailureOutcome
    /\ \A q \in BOOLEAN : MissOutcome(q) # OpenFailureOutcome

\* C8 witness: a quiet run whose lookup missed.
C8_Witness ==
    /\ Terminated
    /\ HasRes("find_page", "none")
    /\ args.quiet

\* What should_update_cache saw: the first last_update() of the run is its
\* own whenever it calls it (no --update, auto-update enabled).
AutoUpdateDue ==
    /\ config.auto_update
    /\ \E i \in 1..Len(trace) :
           /\ trace[i].op = "last_update"
           /\ \A j \in 1..(i - 1) : trace[j].op # "last_update"
           /\ trace[i].res = "none" \/ trace[i].idx >= config.auto_update_interval

UpdateWanted == args.update \/ AutoUpdateDue

LastUpdateFollowsClear ==
    \A i, j \in 1..Len(trace) :
        (trace[i].op = "clear" /\ trace[j].op = "last_update") => i < j

\* C9 as stated: update() is called in a run iff --update was given or
\* auto-update is enabled and last_update(), seen after the clear, is None or
\* at least the interval; so a run with --clear-cache and auto-update always
\* updates, and one with neither auto-update nor --update never does.
\* (Read for the runs whose configuration loaded.)
C9_UpdateIffWanted ==
    (Terminated /\ ConfigLoaded) =>
        /\ Has("update") <=> UpdateWanted
        /\ (args.clear_cache /\ config.auto_update) => Has("update")
        /\ (~config.auto_update /\ ~args.update) => ~Has("update")

\* C9 amended: in a run that gets to the update step (no exit before through
\* --config-path or --seed-config, a configuration failure or a failed
\* clear) update() is called iff --update was given or auto-update is enabled and last_update(),
\* seen after the clear, is None or at least the interval; a run that ends
\* before that step calls no update().  So a run with --clear-cache and
\* auto-update that gets to the update step always updates, and a run with
\* neither auto-update nor --update never does.
C9_UpdateIffWantedAtUpdateStep ==
    /\ UpdateStepDone => (Has("update") <=> UpdateWanted)
    /\ ~UpdateStepDone => ~Has("update")
    /\ (UpdateStepDone /\ args.clear_cache /\ config.auto_update) => Has("update")
    /\ (~config.auto_update /\ ~args.update) => ~Has("update")
    /\ LastUpdateFollowsClear
    /\ Count("update") <= 1

\* C9 witness: --clear-cache without --update, auto-update enabled: the
\* cache was cleared and then updated.
C9_Witness ==
    /\ args.clear_cache /\ ~args.update /\ config.auto_update
    /\ HasRes("clear", "ok")
    /\ HasRes("update", "ok")

FileEvents == SelectSeq(trace, LAMBDA e : e.op \in {"open", "emit"})

PagesOnStdout == SelectSeq(stdout, LAMBDA l : l.text = "page")

\* C10: print_page takes the paths in order, each opened and then emitted
\* before the next is opened; the first path that cannot be opened ends it
\* with an error, no later path is opened and what was emitted stays; it
\* returns Ok only when every path was opened and emitted.
C10_PathsInOrder ==
    LET P == FileEvents
    IN  /\ \A j \in 1..Len(P) :
               /\ P[j].idx = (j + 1) \div 2
               /\ P[j].op = (IF j % 2 = 1 THEN "open" ELSE "emit")
               /\ P[j].res # "ok" => j = Len(P)
               /\ P[j].idx <= page
        /\ HasRes("open", "err") =>
               /\ HasRes("print_page_return", "err")
               /\ trace[Len(trace) - 2].op = "open"
               /\ status = 1
        /\ HasRes("print_page_return", "err") => HasRes("open", "err")
        /\ HasRes("print_page_return", "ok") =>
               /\ Len(P) = 2 * page
               /\ \A j \in 1..Len(P) : P[j].res = "ok"
        /\ PagesOnStdout =
               [k \in 1..Cardinality({j \in 1..Len(P) : P[j].op = "emit" /\ P[j].res = "ok"})
                    |-> PageOutput(k)]

\* C10 witness: the first path was emitted and the second could not be opened.
C10_Witness ==
    /\ Terminated
    /\ page >= 2
    /\ \E i \in 1..Len(trace) : trace[i] = Event("open", "err", 2)
    /\ PagesOnStdout = <<PageOutput(1)>>

=============================================================================
